---- MODULE Spec2Model ----
(***************************************************************************)
(* Model of the WebGPU plugin of mendes5/web-gpu-react: the resource       *)
(* memoization layer (global per-device caches, local per-context caches), *)
(* disposal, device-loss eviction and the action queue.                    *)
(***************************************************************************)
EXTENDS Integers, Sequences, FiniteSets, TLC

\* ------------------------------------------------------------------ bounds
MaxRes == 2
MaxCaches == 2
MaxDestroys == 2
MaxHandles == 1
MaxFutures == 2
MaxRuns == 2
MaxEmbed == 2

\* ------------------------------------------------------------ value spaces
Devices == {"T1", "T2"}
Contexts == {"C1", "C2"}
Labels == {"a", "b"}
Actions == {"f", "g"}
Values == {"v1", "v2"}
Errors == {"e1"}
Keys == {"k1", "k2"}
Callbacks == {"cb1", "cb2"}

GlobalKinds == {"createShaderModule", "createSampler", "createRenderPipeline",
                "createComputePipeline", "createBindGroupLayout",
                "createPipelineLayout"}
LocalKinds == {"createBindGroup", "createBuffer", "createTexture"}

Absent == "absent"
NoRef == 0
Undefined == 0

VARIABLES lost, registry, caches, subs, cleared, resources, ctx, ret,
          handles, futures, actionContext, runs, rendererContext

cacheVars == <<lost, registry, caches, subs, cleared, resources>>

actionVars == <<handles, futures, actionContext, runs>>

\* What the cache and action operations leave alone.
otherVars == <<handles, futures, actionContext, runs, rendererContext>>

vars == <<lost, registry, caches, subs, cleared, resources, ctx, ret,
          handles, futures, actionContext, runs, rendererContext>>

\* ------------------------------------------------------------------- Map
EmptyMap == <<>>

MapHas(m, k) == k \in DOMAIN m

MapGet(m, k) == IF k \in DOMAIN m THEN m[k] ELSE Undefined

MapSet(m, k, v) == [x \in (DOMAIN m) \cup {k} |-> IF x = k THEN v ELSE m[x]]

MapDelete(m, k) == [x \in (DOMAIN m) \ {k} |-> m[x]]

MapValues(m) == {m[k] : k \in DOMAIN m}

MapSize(m) == Cardinality(DOMAIN m)

\* ------------------------------------------------------------ fingerprints
\* A replacer that drops every embedded object.
ReplacerDrops(value) == NoRef

\* The replacer of both hash functions: an embedded object that carries an
\* instanceId is replaced by that instanceId, any other value is kept.
Replacer(value) == IF value # NoRef THEN resources[value].instanceId ELSE value

\* object-hash over the descriptor's fields after the replacer ran.
hash(desc) == <<desc.label, Replacer(desc.ref), desc.owningDevice>>

\* Object.assign(desc, { owningDevice: owner.instanceId }): the caller's
\* descriptor object itself is written.
AssignOwner(desc, owner) == [desc EXCEPT !.owningDevice = owner]

\* A local fingerprint of the descriptor as the caller passed it.
localResourceHashNoOwner(desc, owner) == hash(desc)

localResourceHash(desc, owner) == hash(AssignOwner(desc, owner))

\* A fingerprint that is the same for every descriptor.
globalResourceHashConstant(desc) == <<"none", NoRef, Absent>>

globalResourceHash(desc) == hash(desc)

\* --------------------------------------------------------------- resources
\* hashed(device.createX(descriptor)): a new object on every call, tagged
\* with a new instanceId.  cache / owner record where exec stored it.
hashed(kind, dev, arg, cache, owner) ==
    [instanceId |-> Len(resources) + 1, kind |-> kind, dev |-> dev, arg |-> arg,
     cache |-> cache, owner |-> owner, destroys |-> 0]

\* Creations explored: MaxRes from descriptors of plain values, MaxEmbed
\* from descriptors that embed a resource.
Room(desc) ==
    IF desc.ref = NoRef
    THEN Cardinality({r \in DOMAIN resources : resources[r].arg.ref = NoRef}) < MaxRes
    ELSE Cardinality({r \in DOMAIN resources : resources[r].arg.ref # NoRef}) < MaxEmbed

NoDesc == [label |-> "none", ref |-> NoRef, owningDevice |-> Absent]

\* ------------------------------------------------------ dependency arrays
\* An array object: its elements, and which of the arrays with these
\* elements it is (two arrays are one object iff both fields agree).
NaN == -1

NoDeps == [elems |-> <<>>, copy |-> 0]

IsUndefined(a) == a.copy = 0

Array(elems, copy) == [elems |-> elems, copy |-> copy]

DepArrays ==
    {Array(<<1, 2>>, 1), Array(<<1, 2>>, 2), Array(<<1, 3>>, 1), Array(<<>>, 1),
     Array(<<NaN>>, 1), Array(<<NaN>>, 2)}

\* a !== b: NaN differs from itself.
StrictNotEqual(a, b) == a # b \/ a = NaN

\* A comparison by array object only.
isSameObject(prev, next) == prev = next

isSameDependencies(prev, next) ==
    IF IsUndefined(next) /\ IsUndefined(prev) THEN TRUE
    ELSE IF ~IsUndefined(next) /\ ~IsUndefined(prev)
    THEN IF next = prev THEN TRUE
         ELSE IF Len(prev.elems) # Len(next.elems) THEN FALSE
         ELSE \A i \in 1..Len(prev.elems) : ~StrictNotEqual(prev.elems[i], next.elems[i])
    ELSE ~IsUndefined(prev)

\* The arguments isSameDependencies is applied to.
CompareArrays ==
    DepArrays \cup {NoDeps, Array(<<1>>, 1), Array(<<2, 1>>, 1), Array(<<1, 2, 3>>, 1)}

\* The FrameCallback objects; `by` notes the context whose exec stored it.
NoFrame == [valid |-> FALSE, callback |-> "none", enabled |-> FALSE, kind |-> "none",
            by |-> "none"]

\* A frame object that is always of kind "once".
FrameCallbackOnce(callback, enabled, kind, c) ==
    [valid |-> TRUE, callback |-> callback, enabled |-> enabled, kind |-> "once", by |-> c]

FrameCallback(callback, enabled, kind, c) ==
    [valid |-> TRUE, callback |-> callback, enabled |-> enabled, kind |-> kind, by |-> c]

\* What the last call looked like from outside: the request, the caller's
\* descriptor object after the call (wrote: the call changed it), and the
\* resource returned or the exception thrown; calls: how often the device's
\* create primitive was called; key, deps, frame, ran: the call site,
\* dependency array, returned frame and effect call of a frame request;
\* deps, last, same: both arguments and the result of a comparison.
Ret(op, kind, dev, c, given, desc, res, created, threw) ==
    [op |-> op, kind |-> kind, dev |-> dev, ctx |-> c, desc |-> desc,
     wrote |-> (given # desc), res |-> res, created |-> created, threw |-> threw,
     calls |-> 0, key |-> "none", deps |-> NoDeps, frame |-> NoFrame, ran |-> FALSE,
     last |-> NoDeps, same |-> FALSE]

\* Descriptors a caller can hand to exec: a new object literal.
Literals == [label : Labels, ref : {NoRef}, owningDevice : {Absent}]

\* ------------------------------------------------------------------- Init
NewContext == [made |-> FALSE, buffers |-> EmptyMap, textures |-> EmptyMap,
               bindGroups |-> EmptyMap, frameDeps |-> EmptyMap,
               queueEffectsDeps |-> EmptyMap]

Init ==
    /\ lost = [d \in Devices |-> FALSE]
    /\ registry = [k \in GlobalKinds |-> EmptyMap]
    /\ caches = <<>>
    /\ subs = {}
    /\ cleared = {}
    /\ resources = <<>>
    /\ ctx = [c \in Contexts |-> NewContext]
    /\ ret = Ret("init", "none", "none", "none", NoDesc, NoDesc, Undefined, FALSE, FALSE)
    /\ handles = <<>>
    /\ futures = <<>>
    /\ actionContext = {}
    /\ runs = <<>>
    /\ rendererContext = EmptyMap

\* -------------------------------------------------------------------- exec
\* Lines 252-274: the context's tables are created on the first exec.
LazyInit(cx) == [cx EXCEPT !.made = TRUE]

\* A lookup that never finds the entry.
GlobalLookupMiss(cache, resourceKey) == Undefined

\* A lookup in the caches of every device.
GlobalLookupAnyDevice(cache, resourceKey) ==
    IF \E i \in DOMAIN caches : MapHas(caches[i], resourceKey)
    THEN caches[CHOOSE i \in DOMAIN caches : MapHas(caches[i], resourceKey)][resourceKey]
    ELSE Undefined

\* cache.get(resourceKey) followed by `if (fromCache) return fromCache`.
GlobalLookup(cache, resourceKey) == MapGet(cache, resourceKey)

\* Global branches in which a context that made no request yet finds nothing.
ExecGlobalPerContext(k, d, c, desc, ok) ==
    LET hasCache == MapHas(registry[k], d)
        cid == IF hasCache THEN registry[k][d] ELSE Len(caches) + 1
        caches1 == IF hasCache THEN caches ELSE Append(caches, EmptyMap)
        registry1 == IF hasCache THEN registry
                     ELSE [registry EXCEPT ![k] = MapSet(@, d, cid)]
        subs1 == IF hasCache THEN subs
                 ELSE subs \cup {[kind |-> k, dev |-> d, cache |-> cid]}
        resourceKey == globalResourceHash(desc)
        fromCache == IF ctx[c].made THEN GlobalLookup(caches1[cid], resourceKey)
                     ELSE Undefined
        resource == hashed(k, d, desc, cid, "global")
    IN  /\ hasCache \/ Len(caches) < MaxCaches
        /\ ctx' = [ctx EXCEPT ![c] = LazyInit(@)]
        /\ registry' = registry1
        /\ subs' = subs1
        /\ UNCHANGED <<lost, cleared>>
        /\ UNCHANGED otherVars
        /\ IF fromCache # Undefined
           THEN /\ ok
                /\ caches' = caches1
                /\ UNCHANGED resources
                /\ ret' = Ret("exec", k, d, c, desc, desc, fromCache, FALSE, FALSE)
           ELSE IF ok
           THEN /\ Room(desc)
                /\ resources' = Append(resources, resource)
                /\ caches' = [caches1 EXCEPT ![cid] = MapSet(@, resourceKey, resource.instanceId)]
                /\ ret' = [Ret("exec", k, d, c, desc, desc, resource.instanceId, TRUE, FALSE)
                             EXCEPT !.calls = 1]
           ELSE /\ caches' = caches1
                /\ UNCHANGED resources
                /\ ret' = [Ret("exec", k, d, c, desc, desc, Undefined, FALSE, TRUE)
                             EXCEPT !.calls = 1]

\* The six global branches: identical up to the registry they use.
ExecGlobal(k, d, c, desc, ok) ==
    LET hasCache == MapHas(registry[k], d)
        cid == IF hasCache THEN registry[k][d] ELSE Len(caches) + 1
        caches1 == IF hasCache THEN caches ELSE Append(caches, EmptyMap)
        registry1 == IF hasCache THEN registry
                     ELSE [registry EXCEPT ![k] = MapSet(@, d, cid)]
        subs1 == IF hasCache THEN subs
                 ELSE subs \cup {[kind |-> k, dev |-> d, cache |-> cid]}
        resourceKey == globalResourceHash(desc)
        fromCache == GlobalLookup(caches1[cid], resourceKey)
        resource == hashed(k, d, desc, cid, "global")
    IN  /\ hasCache \/ Len(caches) < MaxCaches
        /\ ctx' = [ctx EXCEPT ![c] = LazyInit(@)]
        /\ registry' = registry1
        /\ subs' = subs1
        /\ UNCHANGED <<lost, cleared>>
        /\ UNCHANGED otherVars
        /\ IF fromCache # Undefined
           THEN /\ ok
                /\ caches' = caches1
                /\ UNCHANGED resources
                /\ ret' = Ret("exec", k, d, c, desc, desc, fromCache, FALSE, FALSE)
           ELSE IF ok
           THEN /\ Room(desc)
                /\ resources' = Append(resources, resource)
                /\ caches' = [caches1 EXCEPT ![cid] = MapSet(@, resourceKey, resource.instanceId)]
                /\ ret' = [Ret("exec", k, d, c, desc, desc, resource.instanceId, TRUE, FALSE)
                             EXCEPT !.calls = 1]
           ELSE /\ caches' = caches1
                /\ UNCHANGED resources
                /\ ret' = [Ret("exec", k, d, c, desc, desc, Undefined, FALSE, TRUE)
                             EXCEPT !.calls = 1]

LocalMap(cx, k) ==
    CASE k = "createBindGroup" -> cx.bindGroups
      [] k = "createBuffer" -> cx.buffers
      [] k = "createTexture" -> cx.textures

\* A store that writes the entry into all three tables of the context.
LocalMapSetEveryTable(cx, k, key, v) ==
    [cx EXCEPT !.bindGroups = MapSet(@, key, v),
               !.buffers = MapSet(@, key, v),
               !.textures = MapSet(@, key, v)]

LocalMapSet(cx, k, key, v) ==
    CASE k = "createBindGroup" -> [cx EXCEPT !.bindGroups = MapSet(@, key, v)]
      [] k = "createBuffer" -> [cx EXCEPT !.buffers = MapSet(@, key, v)]
      [] k = "createTexture" -> [cx EXCEPT !.textures = MapSet(@, key, v)]

\* A lookup that never finds the entry.
LocalLookupMiss(cx, k, key) == Undefined

\* A lookup in one table shared by all contexts.
LocalLookupShared(cx, k, key) ==
    IF \E c \in Contexts : MapHas(LocalMap(ctx[c], k), key)
    THEN LocalMap(ctx[CHOOSE c \in Contexts : MapHas(LocalMap(ctx[c], k), key)], k)[key]
    ELSE Undefined

\* ctx.buffers.get(key) followed by `if (existing) return existing`.
LocalLookup(cx, k, key) == MapGet(LocalMap(cx, k), key)

\* Local branches that keep an entry for a create call that threw.
ExecLocalKeepsFailure(k, d, c, desc, ok) ==
    LET cx == LazyInit(ctx[c])
        key == localResourceHash(desc, d)
        mutated == AssignOwner(desc, d)
        existing == LocalLookup(cx, k, key)
        resource == hashed(k, d, mutated, 0, c)
    IN  /\ UNCHANGED <<lost, registry, caches, subs, cleared>>
        /\ UNCHANGED otherVars
        /\ IF existing # Undefined
           THEN /\ ok
                /\ ctx' = [ctx EXCEPT ![c] = cx]
                /\ UNCHANGED resources
                /\ ret' = Ret("exec", k, d, c, desc, mutated, existing, FALSE, FALSE)
           ELSE /\ Room(desc)
                /\ resources' = Append(resources, resource)
                /\ ctx' = [ctx EXCEPT ![c] = LocalMapSet(cx, k, key, resource.instanceId)]
                /\ ret' = [Ret("exec", k, d, c, desc, mutated,
                               IF ok THEN resource.instanceId ELSE Undefined, ok, ~ok)
                             EXCEPT !.calls = 1]

\* Local branches whose table key also carries the call site.
ExecLocalAtPerSite(site, k, d, c, desc, ok) ==
    LET cx == LazyInit(ctx[c])
        key == Append(localResourceHash(desc, d), site)
        mutated == AssignOwner(desc, d)
        existing == LocalLookup(cx, k, key)
        resource == hashed(k, d, mutated, 0, c)
    IN  /\ UNCHANGED <<lost, registry, caches, subs, cleared>>
        /\ UNCHANGED otherVars
        /\ IF existing # Undefined
           THEN /\ ok
                /\ ctx' = [ctx EXCEPT ![c] = cx]
                /\ UNCHANGED resources
                /\ ret' = [Ret("exec", k, d, c, desc, mutated, existing, FALSE, FALSE)
                             EXCEPT !.key = site]
           ELSE IF ok
           THEN /\ Room(desc)
                /\ resources' = Append(resources, resource)
                /\ ctx' = [ctx EXCEPT ![c] = LocalMapSet(cx, k, key, resource.instanceId)]
                /\ ret' = [Ret("exec", k, d, c, desc, mutated, resource.instanceId, TRUE, FALSE)
                             EXCEPT !.calls = 1, !.key = site]
           ELSE /\ ctx' = [ctx EXCEPT ![c] = cx]
                /\ UNCHANGED resources
                /\ ret' = [Ret("exec", k, d, c, desc, mutated, Undefined, FALSE, TRUE)
                             EXCEPT !.calls = 1, !.key = site]

\* The three local branches: identical up to the context table they use.
\* site is the call-site key of exec, which these branches use for the log
\* line only (their own `key` is the fingerprint).
ExecLocalAt(site, k, d, c, desc, ok) ==
    LET cx == LazyInit(ctx[c])
        key == localResourceHash(desc, d)
        mutated == AssignOwner(desc, d)
        existing == LocalLookup(cx, k, key)
        resource == hashed(k, d, mutated, 0, c)
    IN  /\ UNCHANGED <<lost, registry, caches, subs, cleared>>
        /\ UNCHANGED otherVars
        /\ IF existing # Undefined
           THEN /\ ok
                /\ ctx' = [ctx EXCEPT ![c] = cx]
                /\ UNCHANGED resources
                /\ ret' = [Ret("exec", k, d, c, desc, mutated, existing, FALSE, FALSE)
                             EXCEPT !.key = site]
           ELSE IF ok
           THEN /\ Room(desc)
                /\ resources' = Append(resources, resource)
                /\ ctx' = [ctx EXCEPT ![c] = LocalMapSet(cx, k, key, resource.instanceId)]
                /\ ret' = [Ret("exec", k, d, c, desc, mutated, resource.instanceId, TRUE, FALSE)
                             EXCEPT !.calls = 1, !.key = site]
           ELSE /\ ctx' = [ctx EXCEPT ![c] = cx]
                /\ UNCHANGED resources
                /\ ret' = [Ret("exec", k, d, c, desc, mutated, Undefined, FALSE, TRUE)
                             EXCEPT !.calls = 1, !.key = site]

\* A local request whose call site is of no interest.
ExecLocal(k, d, c, desc, ok) == ExecLocalAt("none", k, d, c, desc, ok)

\* ----------------------------------------------------------------- dispose
\* Number of destroy() calls one `for (... of map.values())` loop makes on r.
Visits(m, r) == Cardinality({key \in DOMAIN m : m[key] = r})

\* A dispose that walks the bind groups too.
DisposeCallsAllTables(cx, r) ==
    IF cx.made
    THEN Visits(cx.textures, r) + Visits(cx.buffers, r) + Visits(cx.bindGroups, r)
    ELSE 0

\* destroy() calls dispose(ctx) makes on resource r.
DisposeCalls(cx, r) ==
    (IF cx.made THEN Visits(cx.textures, r) ELSE 0)
        + (IF cx.made THEN Visits(cx.buffers, r) ELSE 0)

\* A dispose that empties the bind group table.
DisposeContextDropsBindGroups(cx) == [cx EXCEPT !.bindGroups = EmptyMap]

\* The context as dispose leaves it.
DisposeContext(cx) == cx

Disposed(c) == {r \in DOMAIN resources : DisposeCalls(ctx[c], r) > 0}

\* A dispose that also removes the frames the context registered.
DisposeForgetsFrames(c) ==
    /\ \A r \in Disposed(c) : resources[r].destroys < MaxDestroys
    /\ resources' = [r \in DOMAIN resources |->
                        [resources[r] EXCEPT !.destroys = @ + DisposeCalls(ctx[c], r)]]
    /\ ctx' = [ctx EXCEPT ![c] = DisposeContext(@)]
    /\ rendererContext' = [k \in {x \in DOMAIN rendererContext : rendererContext[x].by # c}
                              |-> rendererContext[k]]
    /\ ret' = Ret("dispose", "none", "none", c, NoDesc, NoDesc, Undefined, FALSE, FALSE)
    /\ UNCHANGED <<lost, registry, caches, subs, cleared>>
    /\ UNCHANGED actionVars

Dispose(c) ==
    /\ \A r \in Disposed(c) : resources[r].destroys < MaxDestroys
    /\ resources' = [r \in DOMAIN resources |->
                        [resources[r] EXCEPT !.destroys = @ + DisposeCalls(ctx[c], r)]]
    /\ ctx' = [ctx EXCEPT ![c] = DisposeContext(@)]
    /\ ret' = Ret("dispose", "none", "none", c, NoDesc, NoDesc, Undefined, FALSE, FALSE)
    /\ UNCHANGED <<lost, registry, caches, subs, cleared>>
    /\ UNCHANGED otherVars

\* ------------------------------------------------------------- device loss
\* The `.then` callbacks of device.lost (lines 283-290 and the five copies):
\* KIND_CACHE.delete(device); size = newCache.size; newCache.clear(); log.
\* A handler that leaves the registry entry in place.
HandlerRegistryKept(S) == registry

HandlerRegistry(S) ==
    [k \in GlobalKinds |->
        [d \in (DOMAIN registry[k]) \ {s.dev : s \in {t \in S : t.kind = k}} |->
            registry[k][d]]]

\* A handler that clears the caches of every device.
HandlerCachesAllDevices(S) ==
    [i \in DOMAIN caches |-> IF S # {} THEN EmptyMap ELSE caches[i]]

HandlerCaches(S) ==
    [i \in DOMAIN caches |-> IF \E s \in S : s.cache = i THEN EmptyMap ELSE caches[i]]

\* A handler that reads the size after clearing.
HandlerLogAfterClear(S) ==
    {[kind |-> s.kind, dev |-> s.dev, cache |-> s.cache, size |-> 0] : s \in S}

HandlerLog(S) ==
    {[kind |-> s.kind, dev |-> s.dev, cache |-> s.cache,
      size |-> MapSize(caches[s.cache])] : s \in S}

RunHandlers(S) ==
    /\ registry' = HandlerRegistry(S)
    /\ caches' = HandlerCaches(S)
    /\ cleared' = cleared \cup HandlerLog(S)
    /\ subs' = subs \ S

\* device.lost callbacks that never run once the promise has resolved.
NoMicrotasks == {}

\* Callbacks whose promise is settled and that wait for the running script
\* to finish.
PendingMicrotasks == {s \in subs : lost[s.dev]}

\* A device loss that also empties the action queue.
LoseDeviceCancels(d) ==
    /\ ~lost[d]
    /\ PendingMicrotasks = {}
    /\ lost' = [lost EXCEPT ![d] = TRUE]
    /\ RunHandlers({s \in subs : s.dev = d})
    /\ actionContext' = {}
    /\ ret' = Ret("lost", "none", d, "none", NoDesc, NoDesc, Undefined, FALSE, FALSE)
    /\ UNCHANGED <<resources, ctx>>
    /\ UNCHANGED <<handles, futures, runs, rendererContext>>

\* A device loss that also empties the local tables of every context.
LoseDeviceClearsLocal(d) ==
    /\ ~lost[d]
    /\ PendingMicrotasks = {}
    /\ lost' = [lost EXCEPT ![d] = TRUE]
    /\ RunHandlers({s \in subs : s.dev = d})
    /\ ctx' = [c \in Contexts |-> [ctx[c] EXCEPT !.buffers = EmptyMap,
                                                 !.textures = EmptyMap,
                                                 !.bindGroups = EmptyMap]]
    /\ ret' = Ret("lost", "none", d, "none", NoDesc, NoDesc, Undefined, FALSE, FALSE)
    /\ UNCHANGED resources
    /\ UNCHANGED otherVars

\* The user agent resolves device.lost outside any script; the callbacks
\* subscribed so far run in the same microtask checkpoint.
LoseDevice(d) ==
    /\ ~lost[d]
    /\ PendingMicrotasks = {}
    /\ lost' = [lost EXCEPT ![d] = TRUE]
    /\ RunHandlers({s \in subs : s.dev = d})
    /\ ret' = Ret("lost", "none", d, "none", NoDesc, NoDesc, Undefined, FALSE, FALSE)
    /\ UNCHANGED <<resources, ctx>>
    /\ UNCHANGED otherVars

\* A callback subscribed to an already resolved device.lost runs when the
\* synchronous pass that subscribed it has returned.
DrainMicrotasks ==
    /\ PendingMicrotasks # {}
    /\ RunHandlers(PendingMicrotasks)
    /\ ret' = Ret("drain", "none", "none", "none", NoDesc, NoDesc, Undefined, FALSE, FALSE)
    /\ UNCHANGED <<lost, resources, ctx>>
    /\ UNCHANGED otherVars

\* ----------------------------------------------------------------- actions
\* The `action` branch of exec: nothing runs, a function is returned.
ExecAction(d, c, a) ==
    /\ Len(handles) < MaxHandles
    /\ ctx' = [ctx EXCEPT ![c] = LazyInit(@)]
    /\ handles' = Append(handles, a)
    /\ ret' = Ret("exec", "action", d, c, NoDesc, NoDesc, Len(handles) + 1, FALSE, FALSE)
    /\ UNCHANGED cacheVars
    /\ UNCHANGED <<futures, actionContext, runs, rendererContext>>

NewPromise == [state |-> "pending", value |-> "none"]

\* A returned function that hands out one future for all its calls.
CallHandleSharedFuture(h) ==
    /\ Len(futures) < MaxFutures
    /\ futures' = IF futures = <<>> THEN Append(futures, NewPromise) ELSE futures
    /\ actionContext' = actionContext \cup {[token |-> 1, action |-> handles[h]]}
    /\ ret' = Ret("handle", "action", "none", "none", NoDesc, NoDesc, 1, FALSE, FALSE)
    /\ UNCHANGED cacheVars
    /\ UNCHANGED <<ctx, handles, runs, rendererContext>>

\* A returned function that calls the action at once.
CallHandleEager(h) ==
    /\ Len(futures) < MaxFutures
    /\ futures' = Append(futures, NewPromise)
    /\ actionContext' = actionContext \cup {[token |-> Len(futures) + 1, action |-> handles[h]]}
    /\ runs' = Append(runs, [token |-> Len(futures) + 1, action |-> handles[h],
                             phase |-> "awaiting", result |-> NewPromise,
                             thunk |-> NewPromise])
    /\ ret' = Ret("handle", "action", "none", "none", NoDesc, NoDesc, Len(futures) + 1, FALSE, FALSE)
    /\ UNCHANGED cacheVars
    /\ UNCHANGED <<ctx, handles, rendererContext>>

\* The function exec returned is called: a token promise is made and a
\* thunk that closes over its resolve / reject is added to the queue.
CallHandle(h) ==
    /\ Len(futures) < MaxFutures
    /\ futures' = Append(futures, NewPromise)
    /\ actionContext' = actionContext \cup {[token |-> Len(futures) + 1, action |-> handles[h]]}
    /\ ret' = Ret("handle", "action", "none", "none", NoDesc, NoDesc, Len(futures) + 1, FALSE, FALSE)
    /\ UNCHANGED cacheVars
    /\ UNCHANGED <<ctx, handles, runs, rendererContext>>

\* A settlement that overwrites an earlier one.
SettleAgain(p, state, value) == [state |-> state, value |-> value]

\* The resolve / reject functions of `new Promise`: the first call settles
\* the promise, later calls do nothing.
Settle(p, state, value) ==
    IF p.state = "pending" THEN [state |-> state, value |-> value] ELSE p

\* The frame driver calls a queued thunk: call.action(bag) either returns
\* its promise, or throws inside the async arrow function, whose own promise
\* is then rejected without `.then(...).catch(...)` being reached.
RunThunk(t, outcome) ==
    /\ Len(runs) < MaxRuns
    /\ runs' = Append(runs,
                 [token |-> t.token, action |-> t.action,
                  phase |-> IF outcome = "throws" THEN "threw" ELSE "awaiting",
                  result |-> NewPromise,
                  thunk |-> IF outcome = "throws"
                            THEN [state |-> "rejected", value |-> "thrown"]
                            ELSE NewPromise])
    /\ ret' = Ret("run", "action", "none", "none", NoDesc, NoDesc, t.token, FALSE, FALSE)
    /\ UNCHANGED cacheVars
    /\ UNCHANGED <<ctx, handles, futures, actionContext, rendererContext>>

\* The promise the action returned settles, and its reactions run:
\* `.then(promise.resolve)` on fulfilment, `.catch(promise.reject)` on
\* rejection; the chain, and with it the thunk's promise, is then fulfilled.
ActionSettles(r, state, value) ==
    /\ runs[r].phase = "awaiting"
    /\ runs' = [runs EXCEPT ![r] = [@ EXCEPT !.phase = "done",
                                               !.result = [state |-> state, value |-> value],
                                               !.thunk = [state |-> "fulfilled", value |-> "none"]]]
    /\ futures' = [futures EXCEPT ![runs[r].token] = Settle(@, state, value)]
    /\ ret' = Ret("settle", "action", "none", "none", NoDesc, NoDesc, runs[r].token, FALSE, FALSE)
    /\ UNCHANGED cacheVars
    /\ UNCHANGED <<ctx, handles, actionContext, rendererContext>>

Outcomes ==
    {<<"fulfilled", v>> : v \in Values} \cup {<<"rejected", e>> : e \in Errors}

\* ------------------------------------------------- frames and queue effects
\* ctx.frameDeps[key] / ctx.queueEffectsDeps[key]: undefined when absent.
DepsGet(table, key) == IF MapHas(table, key) THEN table[key] ELSE NoDeps

\* A pushFrame branch that records the array of enabled registrations only.
ExecPushFrameRecordsEnabled(d, c, key, pushFrame, deps) ==
    LET cx == LazyInit(ctx[c])
        hasDeps == ~IsUndefined(deps)
        lastDeps == DepsGet(cx.frameDeps, key)
        isFirstRender == IsUndefined(lastDeps)
        areSame == isSameDependencies(deps, lastDeps)
        enabled == ~areSame \/ isFirstRender
        frame == IF hasDeps THEN FrameCallback(pushFrame, enabled, "once", c)
                 ELSE FrameCallback(pushFrame, TRUE, "loop", c)
    IN  /\ ctx' = [ctx EXCEPT ![c] = IF hasDeps /\ enabled
                                     THEN [cx EXCEPT !.frameDeps = MapSet(@, key, deps)]
                                     ELSE cx]
        /\ rendererContext' = MapSet(rendererContext, key, frame)
        /\ ret' = [Ret("exec", "pushFrame", d, c, NoDesc, NoDesc, Undefined, FALSE, FALSE)
                     EXCEPT !.key = key, !.deps = deps, !.frame = frame]
        /\ UNCHANGED cacheVars
        /\ UNCHANGED actionVars

\* A pushFrame branch in which a call without an array forgets the recorded one.
ExecPushFrameLoopForgets(d, c, key, pushFrame, deps) ==
    LET cx == LazyInit(ctx[c])
        hasDeps == ~IsUndefined(deps)
        lastDeps == DepsGet(cx.frameDeps, key)
        isFirstRender == IsUndefined(lastDeps)
        areSame == isSameDependencies(deps, lastDeps)
        enabled == ~areSame \/ isFirstRender
        frame == IF hasDeps THEN FrameCallback(pushFrame, enabled, "once", c)
                 ELSE FrameCallback(pushFrame, TRUE, "loop", c)
    IN  /\ ctx' = [ctx EXCEPT ![c] = IF hasDeps
                                     THEN [cx EXCEPT !.frameDeps = MapSet(@, key, deps)]
                                     ELSE [cx EXCEPT !.frameDeps = MapDelete(@, key)]]
        /\ rendererContext' = MapSet(rendererContext, key, frame)
        /\ ret' = [Ret("exec", "pushFrame", d, c, NoDesc, NoDesc, Undefined, FALSE, FALSE)
                     EXCEPT !.key = key, !.deps = deps, !.frame = frame]
        /\ UNCHANGED cacheVars
        /\ UNCHANGED actionVars

\* A pushFrame branch that keeps an entry enabled once it was stored enabled.
ExecPushFrameSticky(d, c, key, pushFrame, deps) ==
    LET cx == LazyInit(ctx[c])
        hasDeps == ~IsUndefined(deps)
        lastDeps == DepsGet(cx.frameDeps, key)
        isFirstRender == IsUndefined(lastDeps)
        areSame == isSameDependencies(deps, lastDeps)
        enabled == \/ ~areSame \/ isFirstRender
                   \/ (MapHas(rendererContext, key) /\ rendererContext[key].enabled)
        frame == IF hasDeps THEN FrameCallback(pushFrame, enabled, "once", c)
                 ELSE FrameCallback(pushFrame, TRUE, "loop", c)
    IN  /\ ctx' = [ctx EXCEPT ![c] = IF hasDeps
                                     THEN [cx EXCEPT !.frameDeps = MapSet(@, key, deps)]
                                     ELSE cx]
        /\ rendererContext' = MapSet(rendererContext, key, frame)
        /\ ret' = [Ret("exec", "pushFrame", d, c, NoDesc, NoDesc, Undefined, FALSE, FALSE)
                     EXCEPT !.key = key, !.deps = deps, !.frame = frame]
        /\ UNCHANGED cacheVars
        /\ UNCHANGED actionVars

\* The pushFrame branch; deps = NoDeps is a call that passes no array.
ExecPushFrame(d, c, key, pushFrame, deps) ==
    LET cx == LazyInit(ctx[c])
        hasDeps == ~IsUndefined(deps)
        lastDeps == DepsGet(cx.frameDeps, key)
        isFirstRender == IsUndefined(lastDeps)
        areSame == isSameDependencies(deps, lastDeps)
        enabled == ~areSame \/ isFirstRender
        frame == IF hasDeps THEN FrameCallback(pushFrame, enabled, "once", c)
                 ELSE FrameCallback(pushFrame, TRUE, "loop", c)
    IN  /\ ctx' = [ctx EXCEPT ![c] = IF hasDeps
                                     THEN [cx EXCEPT !.frameDeps = MapSet(@, key, deps)]
                                     ELSE cx]
        /\ rendererContext' = MapSet(rendererContext, key, frame)
        /\ ret' = [Ret("exec", "pushFrame", d, c, NoDesc, NoDesc, Undefined, FALSE, FALSE)
                     EXCEPT !.key = key, !.deps = deps, !.frame = frame]
        /\ UNCHANGED cacheVars
        /\ UNCHANGED actionVars

\* One application of isSameDependencies(prev, next).
Compare(prev, next) ==
    /\ ret' = [Ret("compare", "none", "none", "none", NoDesc, NoDesc, Undefined, FALSE, FALSE)
                 EXCEPT !.deps = prev, !.last = next, !.same = isSameDependencies(prev, next)]
    /\ UNCHANGED <<ctx, cacheVars, otherVars>>

\* A comparison that calls every dependency sequence changed.
QueueEffectChangedAlways(cached, deps) == TRUE

\* `!isSameDependencies(cached, call.deps)` of the queueEffect branch.
QueueEffectChanged(cached, deps) == ~isSameDependencies(cached, deps)

\* A queueEffect branch that records the sequence after the effect returned.
ExecQueueEffectRecordsAfter(d, c, key, deps, ok) ==
    LET cx == LazyInit(ctx[c])
        cached == DepsGet(cx.queueEffectsDeps, key)
        changed == QueueEffectChanged(cached, deps)
    IN  /\ ctx' = [ctx EXCEPT ![c] = IF changed /\ ok
                                     THEN [cx EXCEPT !.queueEffectsDeps = MapSet(@, key, deps)]
                                     ELSE cx]
        /\ ret' = [Ret("exec", "queueEffect", d, c, NoDesc, NoDesc, Undefined, FALSE,
                       changed /\ ~ok)
                     EXCEPT !.key = key, !.deps = deps, !.ran = changed]
        /\ UNCHANGED cacheVars
        /\ UNCHANGED otherVars

\* The queueEffect branch; ok: the effect returns rather than throws.
ExecQueueEffect(d, c, key, deps, ok) ==
    LET cx == LazyInit(ctx[c])
        cached == DepsGet(cx.queueEffectsDeps, key)
        changed == QueueEffectChanged(cached, deps)
    IN  /\ ctx' = [ctx EXCEPT ![c] = IF changed
                                     THEN [cx EXCEPT !.queueEffectsDeps = MapSet(@, key, deps)]
                                     ELSE cx]
        /\ ret' = [Ret("exec", "queueEffect", d, c, NoDesc, NoDesc, Undefined, FALSE,
                       changed /\ ~ok)
                     EXCEPT !.key = key, !.deps = deps, !.ran = changed]
        /\ UNCHANGED cacheVars
        /\ UNCHANGED otherVars

\* An unknown call that is ignored.
ExecUnknownSilent(d, c) ==
    /\ ctx' = [ctx EXCEPT ![c] = LazyInit(@)]
    /\ ret' = Ret("exec", "unknown", d, c, NoDesc, NoDesc, Undefined, FALSE, FALSE)
    /\ UNCHANGED cacheVars
    /\ UNCHANGED otherVars

\* A call object with none of the twelve keys: the final else branch.
ExecUnknown(d, c) ==
    /\ ctx' = [ctx EXCEPT ![c] = LazyInit(@)]
    /\ ret' = Ret("exec", "unknown", d, c, NoDesc, NoDesc, Undefined, FALSE, TRUE)
    /\ UNCHANGED cacheVars
    /\ UNCHANGED otherVars

\* -------------------------------------------------------------------- Next
\* The global caches of two devices under requests and device loss.
GlobalRequest ==
    \E k \in GlobalKinds, d \in Devices, desc \in Literals :
        ExecGlobal(k, d, "C1", desc, TRUE)

NextGlobal ==
    \/ GlobalRequest
    \/ \E d \in Devices : LoseDevice(d)
    \/ DrainMicrotasks

SpecGlobal == Init /\ [][NextGlobal]_vars

\* The local caches of two contexts under requests and disposal.
LocalRequest ==
    \E k \in LocalKinds, c \in Contexts, desc \in Literals :
        ExecLocal(k, "T1", c, desc, TRUE)

NextLocal ==
    \/ LocalRequest
    \/ \E c \in Contexts : Dispose(c)

SpecLocal == Init /\ [][NextLocal]_vars

\* Both cache levels together, for one device and one descriptor.
OneLiteral == {l \in Literals : l.label = "a"}

Next ==
    \/ \E k \in GlobalKinds, c \in Contexts, desc \in OneLiteral :
          ExecGlobal(k, "T1", c, desc, TRUE)
    \/ \E k \in LocalKinds, c \in Contexts, desc \in OneLiteral :
          ExecLocal(k, "T1", c, desc, TRUE)
    \/ \E c \in Contexts : Dispose(c)
    \/ LoseDevice("T1")
    \/ DrainMicrotasks

Spec == Init /\ [][Next]_vars

\* The action queue: requests, calls of the returned function, and the frame
\* driver running queued thunks.
NextAction ==
    \/ \E a \in Actions : ExecAction("T1", "C1", a)
    \/ \E h \in DOMAIN handles : CallHandle(h)
    \/ \E t \in actionContext, outcome \in {"returns", "throws"} : RunThunk(t, outcome)
    \/ \E r \in DOMAIN runs, o \in Outcomes : ActionSettles(r, o[1], o[2])

SpecAction == Init /\ [][NextAction]_vars

\* Frame callbacks of one context: every dependency array, key and callback.
NextFrame ==
    \E key \in Keys, pushFrame \in Callbacks, deps \in DepArrays \cup {NoDeps} :
        ExecPushFrame("T1", "C1", key, pushFrame, deps)

SpecFrame == Init /\ [][NextFrame]_vars

\* Frame callbacks of two contexts rendered by the same plugin.
SlotArrays == {Array(<<1, 2>>, 1), Array(<<1, 3>>, 1), NoDeps}

NextSlots ==
    \E c \in Contexts, key \in Keys, pushFrame \in Callbacks, deps \in SlotArrays :
        ExecPushFrame("T1", c, key, pushFrame, deps)

SpecSlots == Init /\ [][NextSlots]_vars

\* Queue effects only.
NextQueue ==
    \E c \in Contexts, key \in Keys, deps \in DepArrays, ok \in BOOLEAN :
        ExecQueueEffect("T1", c, key, deps, ok)

SpecQueue == Init /\ [][NextQueue]_vars

\* One request of every table of the plugin, and calls it does not know.
NextDispatch ==
    \/ \E desc \in OneLiteral : ExecGlobal("createSampler", "T1", "C1", desc, TRUE)
    \/ \E desc \in OneLiteral : ExecLocal("createBuffer", "T1", "C1", desc, TRUE)
    \/ ExecPushFrame("T1", "C1", "k1", "cb1", Array(<<1, 2>>, 1))
    \/ ExecQueueEffect("T1", "C1", "k1", Array(<<1, 2>>, 1), TRUE)
    \/ ExecAction("T1", "C1", "f")
    \/ \E h \in DOMAIN handles : CallHandle(h)
    \/ \E c \in Contexts : ExecUnknown("T1", c)

SpecDispatch == Init /\ [][NextDispatch]_vars

\* Creation calls that may throw, for one device and one context.
NextFail ==
    \/ \E k \in {"createShaderModule", "createSampler"}, desc \in Literals, ok \in BOOLEAN :
          ExecGlobal(k, "T1", "C1", desc, ok)
    \/ \E k \in {"createBuffer", "createTexture"}, desc \in Literals, ok \in BOOLEAN :
          ExecLocal(k, "T1", "C1", desc, ok)

SpecFail == Init /\ [][NextFail]_vars

\* Actions enqueued while the device is alive and run by the frame driver
\* once it is lost.
NextActionLoss ==
    \/ \E desc \in OneLiteral : ExecGlobal("createSampler", "T1", "C1", desc, TRUE)
    \/ ExecAction("T1", "C1", "f")
    \/ \E h \in DOMAIN handles : ~lost["T1"] /\ CallHandle(h)
    \/ LoseDevice("T1")
    \/ DrainMicrotasks
    \/ \E t \in actionContext, outcome \in {"returns", "throws"} :
          lost["T1"] /\ RunThunk(t, outcome)
    \/ \E r \in DOMAIN runs, o \in Outcomes : ActionSettles(r, o[1], o[2])

SpecActionLoss == Init /\ [][NextActionLoss]_vars

\* isSameDependencies on every pair of arguments.
NextCompare == \E prev \in CompareArrays, next \in CompareArrays : Compare(prev, next)

SpecCompare == Init /\ [][NextCompare]_vars

\* Frame registrations among resource requests, disposal and device loss.
NextRegistry ==
    \/ \E c \in Contexts, key \in Keys, deps \in {Array(<<1, 2>>, 1), NoDeps} :
          ExecPushFrame("T1", c, key, "cb1", deps)
    \/ \E desc \in OneLiteral : ExecGlobal("createSampler", "T1", "C1", desc, TRUE)
    \/ \E desc \in OneLiteral : ExecLocal("createBuffer", "T1", "C1", desc, TRUE)
    \/ Dispose("C1")
    \/ LoseDevice("T1")
    \/ DrainMicrotasks

SpecRegistry == Init /\ [][NextRegistry]_vars

\* A descriptor that embeds the resource object r.
Embedding(label, r) == [label |-> label, ref |-> r, owningDevice |-> Absent]

OfKind(k) == {r \in DOMAIN resources : resources[r].kind = k}

\* Buffers and bind group layouts, and the bind groups and pipeline layouts
\* whose descriptors embed them.
NextRefs ==
    \/ \E desc \in Literals : ExecLocal("createBuffer", "T1", "C1", desc, TRUE)
    \/ \E desc \in OneLiteral : ExecGlobal("createBindGroupLayout", "T1", "C1", desc, TRUE)
    \/ \E l \in Labels, r \in OfKind("createBuffer") :
          ExecLocal("createBindGroup", "T1", "C1", Embedding(l, r), TRUE)
    \/ \E l \in Labels, r \in OfKind("createBindGroupLayout") \cup OfKind("createBuffer") :
          ExecGlobal("createPipelineLayout", "T1", "C1", Embedding(l, r), TRUE)

SpecRefs == Init /\ [][NextRefs]_vars

\* One context interpreted by the plugins of two devices; a descriptor
\* object may already carry the owningDevice an earlier request wrote.
Stamped == [label : Labels, ref : {NoRef}, owningDevice : {Absent} \cup Devices]

NextLocalDevices ==
    \E k \in LocalKinds, d \in Devices, desc \in Stamped : ExecLocal(k, d, "C1", desc, TRUE)

SpecLocalDevices == Init /\ [][NextLocalDevices]_vars

\* Local requests issued from two call sites.
NextSites ==
    \E site \in Keys, k \in LocalKinds, c \in Contexts, desc \in Literals :
        ExecLocalAt(site, k, "T1", c, desc, TRUE)

SpecSites == Init /\ [][NextSites]_vars

\* ------------------------------------------------------------------ claims
GlobalResources == {r \in DOMAIN resources : resources[r].kind \in GlobalKinds}

LocalResources == {r \in DOMAIN resources : resources[r].kind \in LocalKinds}

\* The last call was an exec of one of `kinds` that returned a resource.
Returned(kinds) ==
    ret.op = "exec" /\ ret.kind \in kinds /\ ~ret.threw /\ ret.res # Undefined

EvictedCaches == {rec.cache : rec \in cleared}

\* C1 as stated: for every device, global kind and descriptor, create is
\* invoked at most once, and every request returns that one instance.
C1_Original ==
    /\ \A r1, r2 \in GlobalResources :
          (/\ resources[r1].kind = resources[r2].kind
           /\ resources[r1].dev = resources[r2].dev
           /\ globalResourceHash(resources[r1].arg) = globalResourceHash(resources[r2].arg))
              => r1 = r2
    /\ Returned(GlobalKinds) =>
          /\ resources[ret.res].kind = ret.kind
          /\ resources[ret.res].dev = ret.dev
          /\ globalResourceHash(resources[ret.res].arg) = globalResourceHash(ret.desc)

\* C1 amended: between two runs of a device's loss handler (that is, while
\* one cache object is registered for the device and kind), create is
\* invoked exactly once per descriptor, and every request for that
\* descriptor returns that one instance, taken from the registered cache.
C1_GlobalMemoization ==
    /\ \A r1, r2 \in GlobalResources :
          (/\ resources[r1].cache = resources[r2].cache
           /\ globalResourceHash(resources[r1].arg) = globalResourceHash(resources[r2].arg))
              => r1 = r2
    /\ Returned(GlobalKinds) =>
          /\ resources[ret.res].kind = ret.kind
          /\ resources[ret.res].dev = ret.dev
          /\ globalResourceHash(resources[ret.res].arg) = globalResourceHash(ret.desc)
          /\ MapHas(registry[ret.kind], ret.dev)
          /\ resources[ret.res].cache = registry[ret.kind][ret.dev]

\* A second request for a descriptor was answered from the cache.
C1_Witness == Returned(GlobalKinds) /\ ~ret.created

\* The fields of a descriptor the caller wrote.
SameDescriptor(a, b) == a.label = b.label /\ a.ref = b.ref

\* C2: within one context and one device, create is invoked exactly once
\* for structurally equal buffer, texture or bind group descriptors, and
\* every such request returns that one instance.
C2_LocalMemoization ==
    /\ \A r1, r2 \in LocalResources :
          (/\ resources[r1].owner = resources[r2].owner
           /\ resources[r1].dev = resources[r2].dev
           /\ resources[r1].kind = resources[r2].kind
           /\ SameDescriptor(resources[r1].arg, resources[r2].arg))
              => r1 = r2
    /\ Returned(LocalKinds) =>
          /\ resources[ret.res].owner = ret.ctx
          /\ resources[ret.res].dev = ret.dev
          /\ resources[ret.res].kind = ret.kind
          /\ SameDescriptor(resources[ret.res].arg, ret.desc)

\* A second local request was answered from the context's cache.
C2_Witness == Returned(LocalKinds) /\ ~ret.created

AllLocalMaps(cx) == MapValues(cx.buffers) \cup MapValues(cx.textures) \cup MapValues(cx.bindGroups)

\* C3: a local resource returned in context C was created by a request in
\* C, every entry of C's local caches was created in C, and so a
\* structurally identical descriptor requested in another context gets a
\* different resource.
C3_LocalIsolation ==
    /\ Returned(LocalKinds) => resources[ret.res].owner = ret.ctx
    /\ \A c \in Contexts : \A r \in AllLocalMaps(ctx[c]) : resources[r].owner = c
    /\ \A c1, c2 \in Contexts :
          c1 # c2 => AllLocalMaps(ctx[c1]) \cap AllLocalMaps(ctx[c2]) = {}

\* Two contexts each got their own resource for the same descriptor.
C3_Witness ==
    /\ Returned(LocalKinds) /\ ret.created
    /\ \E r \in LocalResources :
          /\ r # ret.res
          /\ resources[r].kind = ret.kind
          /\ resources[r].dev = ret.dev
          /\ resources[r].arg = resources[ret.res].arg
          /\ resources[r].owner # ret.ctx

\* C4: once the loss handler of a cache has run, the size it reported is
\* the number of entries the cache held, the cache is empty and no longer
\* registered; a request after that is never answered with a resource of
\* the evicted cache, it creates a new one.
C4_DeviceLossEviction ==
    /\ \A rec \in cleared :
          /\ rec.size = Cardinality({r \in DOMAIN resources : resources[r].cache = rec.cache})
          /\ caches[rec.cache] = EmptyMap
          /\ \A k \in GlobalKinds : rec.cache \notin MapValues(registry[k])
    /\ \A k \in GlobalKinds : \A d \in DOMAIN registry[k] :
          MapValues(caches[registry[k][d]]) \cap
              {r \in DOMAIN resources : resources[r].cache \in EvictedCaches} = {}
    /\ Returned(GlobalKinds) => resources[ret.res].cache \notin EvictedCaches

\* After an eviction that reported at least one entry, a request for a
\* descriptor the evicted cache held created a new resource.
C4_Witness ==
    /\ Returned(GlobalKinds) /\ ret.created
    /\ \E rec \in cleared : \E r \in GlobalResources :
          /\ rec.size >= 1
          /\ rec.kind = ret.kind /\ rec.dev = ret.dev
          /\ resources[r].cache = rec.cache
          /\ r # ret.res
          /\ globalResourceHash(resources[r].arg) = globalResourceHash(ret.desc)

\* The entries held under device d in the registries.
Held(d) ==
    UNION {IF MapHas(registry[k], d) THEN MapValues(caches[registry[k][d]]) ELSE {}
           : k \in GlobalKinds}

\* C5 as stated: once a device's lost signal has fired, every global cache
\* keyed by that device is empty in every later state.
C5_Original == \A d \in Devices : lost[d] => Held(d) = {}

\* C5 amended: once a device's lost signal has fired, whenever no loss
\* callback of that device is pending no cache is registered for it and
\* every cache made for it is empty; a cache made by a request after the
\* loss holds entries only until the pending callbacks have run.
C5_NoResurrection ==
    \A d \in Devices :
        (lost[d] /\ {s \in subs : s.dev = d} = {}) =>
            /\ \A k \in GlobalKinds : ~MapHas(registry[k], d)
            /\ \A rec \in cleared : rec.dev = d => caches[rec.cache] = EmptyMap
            /\ \A r \in GlobalResources :
                  resources[r].dev = d => caches[resources[r].cache] = EmptyMap

\* A cache made after the loss held an entry and was cleared in its turn.
C5_Witness ==
    \E d \in Devices :
        /\ lost[d] /\ {s \in subs : s.dev = d} = {}
        /\ \E rec1, rec2 \in cleared :
              /\ rec1.cache # rec2.cache
              /\ rec1.kind = rec2.kind /\ rec1.dev = d /\ rec2.dev = d
              /\ rec1.size >= 1 /\ rec2.size >= 1

\* C6: a dispose(C) step calls destroy exactly once on every buffer and
\* texture held in C's buffer and texture caches, on nothing else (no
\* resource of another context), and changes no global cache.
C6_DisposeExact ==
    [][\A c \in Contexts :
          (ret'.op = "dispose" /\ ret'.ctx = c) =>
              /\ \A r \in DOMAIN resources :
                    resources'[r].destroys =
                        resources[r].destroys +
                            (IF r \in MapValues(ctx[c].buffers) \cup MapValues(ctx[c].textures)
                             THEN 1 ELSE 0)
              /\ DOMAIN resources' = DOMAIN resources
              /\ registry' = registry
              /\ caches' = caches]_vars

\* dispose ran on a context holding a buffer or texture, while a sibling
\* context holds a resource of its own, left alone.
C6_Witness ==
    /\ ret.op = "dispose"
    /\ \E r1, r2 \in LocalResources :
          /\ resources[r1].owner = ret.ctx
          /\ resources[r1].kind # "createBindGroup"
          /\ resources[r1].destroys = 1
          /\ resources[r2].owner # ret.ctx
          /\ resources[r2].kind # "createBindGroup"
          /\ resources[r2].destroys = 0

\* C7: after dispose(C) the buffer and texture caches of C hold no entries,
\* and exec never returns a buffer or texture that was destroyed.
C7_DisposeDiscards ==
    /\ ret.op = "dispose" =>
          ctx[ret.ctx].buffers = EmptyMap /\ ctx[ret.ctx].textures = EmptyMap
    /\ Returned({"createBuffer", "createTexture"}) => resources[ret.res].destroys = 0

\* C8: destroy is invoked at most once on any buffer or texture.
C8_DestroyOnce ==
    \A r \in LocalResources : resources[r].destroys <= 1

\* The runs of the thunk of token f.
RunsOf(f) == {r \in DOMAIN runs : runs[r].token = f}

\* C9: when a thunk has been run (once) and its run is over, the future is
\* settled: fulfilled with the action's result, or rejected with its error
\* when the action rejected or threw.
C9_ActionSettlement ==
    \A f \in DOMAIN futures : \A r \in RunsOf(f) :
        RunsOf(f) = {r} =>
            /\ runs[r].phase = "done" => futures[f] = runs[r].result
            /\ runs[r].phase = "threw" => futures[f].state = "rejected"

\* C10: a settled future never changes again.
C10_SettledOnce ==
    [][\A f \in DOMAIN futures :
          futures[f].state # "pending" => futures'[f] = futures[f]]_vars

\* One thunk ran twice to the end with two different outcomes.
C10_Witness ==
    \E r1, r2 \in DOMAIN runs :
        /\ r1 # r2
        /\ runs[r1].token = runs[r2].token
        /\ runs[r1].phase = "done" /\ runs[r2].phase = "done"
        /\ runs[r1].result # runs[r2].result
        /\ futures[runs[r1].token] = runs[r1].result

\* C11: the action is called (a run begins) only in a step in which the
\* frame driver invokes a thunk that is in the action queue; neither exec
\* of a 'run action' request nor the call that creates the future starts a
\* run.
C11_EnqueueDecoupled ==
    [][/\ (ret'.op \in {"exec", "handle"}) => runs' = runs
       /\ Len(runs') > Len(runs) =>
             /\ ret'.op = "run"
             /\ Len(runs') = Len(runs) + 1
             /\ \E t \in actionContext :
                   /\ t.token = runs'[Len(runs')].token
                   /\ t.action = runs'[Len(runs')].action]_vars

\* A future exists and its thunk is queued while the action never ran.
C11_Witness ==
    /\ ret.op = "handle"
    /\ runs = <<>>
    /\ \E t \in actionContext : futures[t.token].state = "pending"

\* C12: the promise a queued thunk returns is never rejected, whatever the
\* action does.
C12_ThunkNeverRejects ==
    \A r \in DOMAIN runs : runs[r].thunk.state # "rejected"

\* C13: a call with none of the known keys throws, returns nothing, and
\* leaves every global cache, local cache, dependency table, the frame
\* callback registry and the action queue as they were.
C13_UnknownCallThrows ==
    [][(ret'.op = "exec" /\ ret'.kind = "unknown") =>
          /\ ret'.threw
          /\ ret'.res = Undefined
          /\ registry' = registry
          /\ caches' = caches
          /\ resources' = resources
          /\ \A c \in Contexts :
                /\ ctx'[c].buffers = ctx[c].buffers
                /\ ctx'[c].textures = ctx[c].textures
                /\ ctx'[c].bindGroups = ctx[c].bindGroups
                /\ ctx'[c].frameDeps = ctx[c].frameDeps
                /\ ctx'[c].queueEffectsDeps = ctx[c].queueEffectsDeps
          /\ rendererContext' = rendererContext
          /\ actionContext' = actionContext]_vars

C13_Witness ==
    /\ ret.op = "exec" /\ ret.kind = "unknown" /\ ret.threw
    /\ Len(caches) > 0
    /\ MapSize(ctx["C1"].buffers) > 0
    /\ MapHas(ctx["C1"].frameDeps, "k1")
    /\ MapHas(ctx["C1"].queueEffectsDeps, "k1")
    /\ MapHas(rendererContext, "k1")
    /\ actionContext # {}

\* The last call was a creation request whose device call threw.
FailedCreate ==
    ret.op = "exec" /\ ret.kind \in GlobalKinds \cup LocalKinds /\ ret.threw

\* The table the request (kind, dev, c) uses holds an entry for desc.
EntryAt(kind, dev, c, desc) ==
    IF kind \in GlobalKinds
    THEN /\ MapHas(registry[kind], dev)
         /\ MapHas(caches[registry[kind][dev]], globalResourceHash(desc))
    ELSE MapHas(LocalMap(ctx[c], kind), localResourceHash(desc, dev))

\* C14: when the device's create call throws, exec throws and returns no
\* resource, create was called exactly once, no resource and no entry for
\* the fingerprint exists afterwards, and the next request for the same
\* descriptor calls create again.
C14_CreationFailure ==
    /\ [](FailedCreate =>
             /\ ret.calls = 1
             /\ ret.res = Undefined
             /\ ~ret.created
             /\ ~EntryAt(ret.kind, ret.dev, ret.ctx, ret.desc))
    /\ [][/\ (ret'.op = "exec" /\ ret'.kind \in GlobalKinds \cup LocalKinds /\ ret'.threw)
                => resources' = resources
          /\ (/\ FailedCreate
              /\ ret'.op = "exec" /\ ret'.kind = ret.kind
              /\ ret'.dev = ret.dev /\ ret'.ctx = ret.ctx
              /\ SameDescriptor(ret'.desc, ret.desc))
                => ret'.calls = 1]_vars

C14_Witness ==
    /\ FailedCreate /\ ret.kind \in LocalKinds /\ ret.calls = 1
    /\ MapSize(LocalMap(ctx[ret.ctx], ret.kind)) > 0
    /\ \E k \in GlobalKinds : MapHas(registry[k], "T1") /\ caches[registry[k]["T1"]] = EmptyMap

\* The step is a frame registration that passes a dependency array.
OnceRegistration == ret'.op = "exec" /\ ret'.kind = "pushFrame" /\ ~IsUndefined(ret'.deps)

\* Equal length and every pair of elements identical (===).
PairwiseIdentical(a, b) ==
    /\ Len(a.elems) = Len(b.elems)
    /\ \A i \in 1..Len(a.elems) : a.elems[i] = b.elems[i] /\ a.elems[i] # NaN

\* Different length or some pair of elements with different values.
Differs(a, b) ==
    \/ Len(a.elems) # Len(b.elems)
    \/ \E i \in 1..Len(a.elems) : a.elems[i] # b.elems[i]

\* C15: a registration with a dependency array is of kind "once"; it is
\* enabled when the context has no array recorded for the key, disabled
\* when the array is pairwise identical to the recorded one, and enabled
\* when it differs from the recorded one in length or in an element.
C15_OnceChangeDetection ==
    [][OnceRegistration =>
          LET last == DepsGet(ctx[ret'.ctx].frameDeps, ret'.key)
              frame == ret'.frame
          IN  /\ frame.valid /\ frame.kind = "once"
              /\ rendererContext'[ret'.key] = frame
              /\ IsUndefined(last) => frame.enabled
              /\ (~IsUndefined(last) /\ PairwiseIdentical(ret'.deps, last)) => ~frame.enabled
              /\ (~IsUndefined(last) /\ Differs(ret'.deps, last)) => frame.enabled]_vars

C15_Witness ==
    /\ ret.op = "exec" /\ ret.kind = "pushFrame" /\ ret.key = "k1"
    /\ ret.deps = Array(<<1, 2>>, 2)
    /\ ret.frame.kind = "once" /\ ~ret.frame.enabled
    /\ MapHas(rendererContext, "k2")
    /\ rendererContext["k2"].kind = "once" /\ rendererContext["k2"].enabled
    /\ ctx["C1"].frameDeps["k2"] = Array(<<1, 3>>, 1)

\* C16: a registration without a dependency array returns, and stores under
\* its key, a valid frame of kind "loop" that is enabled, whatever the key
\* held before, and records no dependencies.
C16_LoopAlwaysEnabled ==
    /\ []((ret.op = "exec" /\ ret.kind = "pushFrame" /\ IsUndefined(ret.deps)) =>
             /\ ret.frame.valid /\ ret.frame.kind = "loop" /\ ret.frame.enabled
             /\ rendererContext[ret.key] = ret.frame)
    /\ [][(ret'.op = "exec" /\ ret'.kind = "pushFrame" /\ IsUndefined(ret'.deps)) =>
             \A c \in Contexts : ctx'[c].frameDeps = ctx[c].frameDeps]_vars

C16_Witness ==
    /\ ret.op = "exec" /\ ret.kind = "pushFrame" /\ IsUndefined(ret.deps)
    /\ ret.frame.kind = "loop" /\ ret.frame.enabled
    /\ MapHas(ctx[ret.ctx].frameDeps, ret.key)
    /\ \E k \in DOMAIN rendererContext : ~rendererContext[k].enabled

\* C17: the cache registered for a kind and a device holds only resources
\* that device created for that kind, and a global request returns a
\* resource of the device it was made against; so equal descriptors on two
\* devices get two resources.
C17_DevicePartition ==
    /\ \A k \in GlobalKinds, d \in Devices :
          MapHas(registry[k], d) =>
              \A key \in DOMAIN caches[registry[k][d]] :
                  LET r == resources[caches[registry[k][d]][key]]
                  IN  r.dev = d /\ r.kind = k
    /\ Returned(GlobalKinds) =>
          /\ resources[ret.res].dev = ret.dev
          /\ \A r \in GlobalResources : resources[r].dev # ret.dev => r # ret.res

C17_Witness ==
    /\ Returned(GlobalKinds) /\ ~ret.created /\ ret.dev = "T2"
    /\ \E r \in GlobalResources :
          /\ resources[r].dev = "T1"
          /\ resources[r].kind = ret.kind
          /\ SameDescriptor(resources[r].arg, ret.desc)
          /\ r # ret.res

\* Two dependency sequences are the same: one array object, or equal
\* length and pairwise identical elements.
SameSequence(a, b) == a = b \/ PairwiseIdentical(a, b)

\* C18: a queue effect request calls the effect, with the queue of the
\* device of the request, exactly when the context has no sequence recorded
\* for the key or the recorded one is not the same as the request's; the
\* sequence is recorded when the effect is called and kept otherwise.
C18_QueueEffect ==
    [][(ret'.op = "exec" /\ ret'.kind = "queueEffect") =>
          LET last == DepsGet(ctx[ret'.ctx].queueEffectsDeps, ret'.key)
          IN  /\ ret'.ran = (IsUndefined(last) \/ ~SameSequence(ret'.deps, last))
              /\ ret'.dev = "T1"
              /\ ret'.threw => ret'.ran
              /\ DepsGet(ctx'[ret'.ctx].queueEffectsDeps, ret'.key)
                    = (IF ret'.ran THEN ret'.deps ELSE last)]_vars

C18_Witness ==
    /\ ret.op = "exec" /\ ret.kind = "queueEffect" /\ ~ret.ran
    /\ ret.key = "k1" /\ ret.ctx = "C1"
    /\ ret.deps = Array(<<1, 2>>, 2)
    /\ MapHas(ctx["C2"].queueEffectsDeps, "k1")
    /\ ctx["C2"].queueEffectsDeps["k1"] = Array(<<1, 3>>, 1)

\* C19: the device.lost callbacks leave the action queue, the futures and
\* the runs as they are; a thunk enqueued before the loss is still in the
\* queue after it, invoking it runs its action, and when the promise of
\* that action settles the future settles with it.
C19_LossKeepsActions ==
    /\ [](\A r \in DOMAIN runs :
             runs[r].phase = "done" => futures[runs[r].token].state # "pending")
    /\ [][/\ ret'.op \in {"lost", "drain"} => UNCHANGED actionVars
          /\ (lost["T1"] /\ ret'.op = "run") =>
                /\ Len(runs') = Len(runs) + 1
                /\ \E t \in actionContext :
                      /\ t.token = runs'[Len(runs')].token
                      /\ t.action = runs'[Len(runs')].action
          /\ (lost["T1"] /\ ret'.op = "settle" /\ futures[ret'.res].state = "pending") =>
                futures'[ret'.res].state \in {"fulfilled", "rejected"}]_vars

C19_Witness ==
    /\ lost["T1"] /\ cleared # {}
    /\ ret.op = "settle"
    /\ futures[ret.res].state = "fulfilled"
    /\ \E r \in DOMAIN runs : runs[r].token = ret.res /\ runs[r].phase = "done"
    /\ actionContext # {}

\* C20: a registration made in one context never changes the registry
\* entry that a different context registered, whatever the key.
C20_SlotPerContext ==
    [][\A k \in DOMAIN rendererContext :
          (ret'.op = "exec" /\ ret'.kind = "pushFrame" /\ ret'.ctx # rendererContext[k].by)
              => /\ k \in DOMAIN rendererContext'
                 /\ rendererContext'[k] = rendererContext[k]]_vars

BindGroups == {r \in DOMAIN resources : resources[r].kind = "createBindGroup"}

\* C21: dispose changes no context's bind group table and calls destroy on
\* no bind group.
C21_DisposeKeepsBindGroups ==
    [][ret'.op = "dispose" =>
          /\ \A c \in Contexts : ctx'[c].bindGroups = ctx[c].bindGroups
          /\ \A r \in BindGroups : resources'[r] = resources[r]]_vars

C21_Witness ==
    /\ ret.op = "dispose"
    /\ MapSize(ctx[ret.ctx].bindGroups) > 0
    /\ \A r \in BindGroups : resources[r].destroys = 0
    /\ \E r \in LocalResources : resources[r].owner = ret.ctx /\ resources[r].destroys > 0

\* The step is a global request that returned a resource.
GlobalReturn == ret'.op = "exec" /\ ret'.kind \in GlobalKinds /\ ~ret'.threw

C23_HitWithoutLoss ==
    Returned(GlobalKinds) =>
        /\ SameDescriptor(resources[ret.res].arg, ret.desc)
        /\ resources[ret.res].cache \notin EvictedCaches
        /\ ret.calls = (IF ret.created THEN 1 ELSE 0)
        /\ \A r \in GlobalResources :
              (/\ resources[r].kind = ret.kind
               /\ resources[r].dev = ret.dev
               /\ SameDescriptor(resources[r].arg, ret.desc)
               /\ resources[r].cache \notin EvictedCaches)
                  => r = ret.res

C23_Witness ==
    /\ Returned(GlobalKinds) /\ ~ret.created /\ ret.calls = 0
    /\ \E r \in GlobalResources :
          /\ resources[r].kind = ret.kind
          /\ SameDescriptor(resources[r].arg, ret.desc)
          /\ resources[r].cache \in EvictedCaches

\* C24: isSameDependencies(prev, next) is true exactly when both are one
\* array object, or both are arrays of equal length with pairwise
\* identical elements; it is false when exactly one of them is undefined.
C24_SameDependencies ==
    (ret.op = "compare" /\ ~(IsUndefined(ret.deps) /\ IsUndefined(ret.last))) =>
        ret.same = (/\ ~IsUndefined(ret.deps)
                    /\ ~IsUndefined(ret.last)
                    /\ SameSequence(ret.deps, ret.last))

\* The last call was a frame registration that passed a dependency array.
OnceRegistered == ret.op = "exec" /\ ret.kind = "pushFrame" /\ ~IsUndefined(ret.deps)

\* C25: after every registration with a dependency array, enabled or not,
\* the array recorded for its key in its context is the one it passed, and
\* no other key or context is written; so the next such registration at
\* the key is enabled exactly when its array is not the same as the one of
\* the registration before it.
C25_RecordsEveryRegistration ==
    /\ [](OnceRegistered => DepsGet(ctx[ret.ctx].frameDeps, ret.key) = ret.deps)
    /\ [][OnceRegistration =>
             /\ \A c \in Contexts, k \in Keys :
                   (c # ret'.ctx \/ k # ret'.key) =>
                       DepsGet(ctx'[c].frameDeps, k) = DepsGet(ctx[c].frameDeps, k)
             /\ (OnceRegistered /\ ret.ctx = ret'.ctx /\ ret.key = ret'.key) =>
                   ret'.frame.enabled = ~SameSequence(ret'.deps, ret.deps)]_vars

C25_Witness ==
    /\ OnceRegistered /\ ~ret.frame.enabled
    /\ ret.deps = Array(<<1, 2>>, 2)
    /\ ctx[ret.ctx].frameDeps[ret.key] = Array(<<1, 2>>, 2)

\* The last call was a frame registration that passed no dependency array.
LoopRegistered == ret.op = "exec" /\ ret.kind = "pushFrame" /\ IsUndefined(ret.deps)

\* C26: a registration without a dependency array leaves the array
\* recorded for every key, its own included, as it was; a registration
\* with an array that follows it at the same key is disabled exactly when
\* an array was recorded before and is the same as the new one.
C26_LoopKeepsRecord ==
    [][/\ (ret'.op = "exec" /\ ret'.kind = "pushFrame" /\ IsUndefined(ret'.deps)) =>
             \A c \in Contexts, k \in Keys :
                 DepsGet(ctx'[c].frameDeps, k) = DepsGet(ctx[c].frameDeps, k)
       /\ (LoopRegistered /\ OnceRegistration /\ ret'.ctx = ret.ctx /\ ret'.key = ret.key) =>
             LET recorded == DepsGet(ctx[ret.ctx].frameDeps, ret.key)
             IN  ret'.frame.enabled =
                     (IsUndefined(recorded) \/ ~SameSequence(ret'.deps, recorded))]_vars

C26_Witness ==
    /\ LoopRegistered /\ ret.key = "k1"
    /\ rendererContext["k1"].kind = "loop"
    /\ DepsGet(ctx[ret.ctx].frameDeps, "k1") = Array(<<1, 3>>, 1)

\* The step is a frame registration.
Registration == ret'.op = "exec" /\ ret'.kind = "pushFrame"

\* C27: no step removes a key of the frame callback registry; a
\* registration sets the entry of its own key to the frame it returns and
\* changes no other entry, and no other request, dispose or device loss
\* changes the registry at all.
C27_NoUnregistration ==
    [][/\ DOMAIN rendererContext \subseteq DOMAIN rendererContext'
       /\ Registration =>
             /\ DOMAIN rendererContext' = DOMAIN rendererContext \cup {ret'.key}
             /\ rendererContext'[ret'.key] = ret'.frame
             /\ \A k \in DOMAIN rendererContext :
                   k # ret'.key => rendererContext'[k] = rendererContext[k]
       /\ ~Registration => rendererContext' = rendererContext]_vars

C27_Witness ==
    /\ ret.op = "dispose"
    /\ lost["T1"] /\ cleared # {}
    /\ \E r \in LocalResources : resources[r].owner = ret.ctx /\ resources[r].destroys > 0
    /\ DOMAIN rendererContext = Keys
    /\ \E k \in Keys : rendererContext[k].by = ret.ctx

\* C28: a creation request, global or local, leaves the caller's
\* descriptor as it was, and the descriptor the device's create call
\* received is the descriptor the caller supplied.
C28_PureFingerprint ==
    (ret.op = "exec" /\ ret.kind \in GlobalKinds \cup LocalKinds) =>
        /\ ~ret.wrote
        /\ ret.created => resources[ret.res].arg.owningDevice = Absent

\* Resources created from a descriptor that embeds a resource.
Embedders == {r \in DOMAIN resources : resources[r].arg.ref # NoRef}

\* The identity token of the resource a descriptor embeds.
Token(desc) == resources[desc.ref].instanceId

\* C29: descriptors that embed a resource have equal fingerprints exactly
\* when they are otherwise equal and the embedded resources carry the same
\* identity token; a table holds one resource per label and token, and a
\* request is answered with a resource created over the same token.
C29_IdentitySubstitution ==
    LET descs == {resources[r].arg : r \in Embedders}
                    \cup (IF ret.desc.ref # NoRef THEN {ret.desc} ELSE {})
    IN  /\ \A d1, d2 \in descs :
              (hash(d1) = hash(d2)) <=>
                  (/\ d1.label = d2.label
                   /\ Token(d1) = Token(d2)
                   /\ d1.owningDevice = d2.owningDevice)
        /\ \A r1, r2 \in Embedders :
              (/\ resources[r1].kind = resources[r2].kind
               /\ resources[r1].owner = resources[r2].owner
               /\ resources[r1].arg.label = resources[r2].arg.label
               /\ Token(resources[r1].arg) = Token(resources[r2].arg))
                  => r1 = r2
        /\ (Returned(GlobalKinds \cup LocalKinds) /\ ret.desc.ref # NoRef) =>
              /\ ret.res \in Embedders
              /\ resources[ret.res].arg.label = ret.desc.label
              /\ Token(resources[ret.res].arg) = Token(ret.desc)

C29_Witness ==
    /\ Returned({"createBindGroup"}) /\ ~ret.created
    /\ \E r \in OfKind("createBindGroup") :
          /\ r # ret.res
          /\ resources[r].arg.label = ret.desc.label
          /\ Token(resources[r].arg) # Token(ret.desc)

\* C30: every entry of a context's local tables is keyed with the device
\* that created its resource, and a local request returns a resource of
\* the device it was made against; so equal descriptors interpreted for
\* two devices in one context get two resources.
C30_LocalKeyHasDevice ==
    /\ \A c \in Contexts, k \in LocalKinds :
          \A key \in DOMAIN LocalMap(ctx[c], k) :
              LET r == resources[LocalMap(ctx[c], k)[key]]
              IN  r.dev = key[3] /\ r.kind = k /\ r.arg.label = key[1]
    /\ Returned(LocalKinds) =>
          /\ resources[ret.res].dev = ret.dev
          /\ resources[ret.res].arg.label = ret.desc.label
          /\ ret.desc.owningDevice = ret.dev

C30_Witness ==
    /\ Returned(LocalKinds) /\ ~ret.created /\ ret.dev = "T2"
    /\ \E r \in LocalResources :
          /\ resources[r].dev = "T1"
          /\ resources[r].kind = ret.kind
          /\ resources[r].owner = ret.ctx
          /\ resources[r].arg.label = ret.desc.label

\* C31: the device.lost callbacks change no context and no resource; a
\* local request made after the loss for a descriptor the context's table
\* holds returns the resource of that entry and creates nothing.
C31_LossKeepsLocal ==
    [][/\ ret'.op \in {"lost", "drain"} => ctx' = ctx /\ resources' = resources
       /\ (lost["T1"] /\ ret'.op = "exec" /\ ret'.kind \in LocalKinds /\ ~ret'.threw) =>
             LET table == LocalMap(ctx[ret'.ctx], ret'.kind)
                 key == localResourceHash(ret'.desc, ret'.dev)
             IN  MapHas(table, key) =>
                     /\ ret'.res = table[key]
                     /\ ret'.calls = 0
                     /\ resources' = resources]_vars

C31_Witness ==
    /\ lost["T1"] /\ cleared # {}
    /\ Returned(LocalKinds) /\ ~ret.created /\ ret.dev = "T1"
    /\ \E rec \in cleared : rec.size > 0

\* C32: a run of device.lost callbacks leaves the registered caches of
\* every device that is not lost as they were, and no resource is changed;
\* while another device is lost, a request against a live device for a
\* descriptor its cache holds returns that entry and creates nothing.
C32_LossSparesOtherDevices ==
    [][/\ ret'.op \in {"lost", "drain"} =>
             /\ resources' = resources
             /\ \A d \in Devices :
                   ~lost'[d] =>
                       /\ \A k \in GlobalKinds :
                             /\ MapHas(registry'[k], d) = MapHas(registry[k], d)
                             /\ MapHas(registry[k], d) =>
                                   /\ registry'[k][d] = registry[k][d]
                                   /\ caches'[registry[k][d]] = caches[registry[k][d]]
       /\ (GlobalReturn /\ ~lost[ret'.dev] /\ \E d \in Devices : lost[d]) =>
             LET k == ret'.kind
                 d == ret'.dev
                 key == globalResourceHash(ret'.desc)
             IN  (MapHas(registry[k], d) /\ MapHas(caches[registry[k][d]], key)) =>
                     /\ ret'.res = caches[registry[k][d]][key]
                     /\ ret'.calls = 0
                     /\ resources' = resources]_vars

C32_Witness ==
    /\ lost["T1"] /\ ~lost["T2"]
    /\ \E rec \in cleared : rec.dev = "T1" /\ rec.size > 0
    /\ Returned(GlobalKinds) /\ ~ret.created /\ ret.dev = "T2"

\* The tables of a context, by the request kind that fills them.
Tables(cx) ==
    [k \in LocalKinds \cup {"pushFrame", "queueEffect"} |->
        IF k \in LocalKinds THEN LocalMap(cx, k)
        ELSE IF k = "pushFrame" THEN cx.frameDeps ELSE cx.queueEffectsDeps]

\* C33: a request of a global kind changes no table of any context and, of
\* the global caches, at most the one registered for its kind and device;
\* a request of a local kind changes no registry and no global cache and,
\* of the context tables, at most the one of its kind in its context.
C33_RoutingByLifetime ==
    [][/\ (ret'.op = "exec" /\ ret'.kind \in GlobalKinds) =>
             /\ \A c \in Contexts : Tables(ctx'[c]) = Tables(ctx[c])
             /\ \A k \in GlobalKinds \ {ret'.kind} : registry'[k] = registry[k]
             /\ \A d \in DOMAIN registry[ret'.kind] :
                   /\ MapHas(registry'[ret'.kind], d)
                   /\ registry'[ret'.kind][d] = registry[ret'.kind][d]
             /\ DOMAIN registry'[ret'.kind] \subseteq DOMAIN registry[ret'.kind] \cup {ret'.dev}
             /\ \A i \in DOMAIN caches :
                   i # registry'[ret'.kind][ret'.dev] => caches'[i] = caches[i]
       /\ (ret'.op = "exec" /\ ret'.kind \in LocalKinds) =>
             /\ registry' = registry /\ caches' = caches /\ subs' = subs
             /\ \A c \in Contexts :
                   \A k \in DOMAIN Tables(ctx[c]) :
                       (c # ret'.ctx \/ k # ret'.kind) =>
                           Tables(ctx'[c])[k] = Tables(ctx[c])[k]]_vars

C33_Witness ==
    /\ Returned(LocalKinds) /\ ret.created
    /\ \E i \in DOMAIN caches : caches[i] # EmptyMap
    /\ MapSize(LocalMap(ctx[ret.ctx], ret.kind)) = 1
    /\ \A k \in LocalKinds \ {ret.kind} : LocalMap(ctx[ret.ctx], k) = EmptyMap

\* C34: a context never holds two resources of one kind for one
\* fingerprint, and a local request finds the entry of its fingerprint
\* whatever its call site: of two requests for equal descriptors made from
\* different call sites in one context the second returns the resource of
\* the first and creates nothing.
C34_KeyedByFingerprint ==
    /\ [](\A r1, r2 \in LocalResources :
             (/\ resources[r1].owner = resources[r2].owner
              /\ resources[r1].kind = resources[r2].kind
              /\ localResourceHash(resources[r1].arg, resources[r1].dev)
                    = localResourceHash(resources[r2].arg, resources[r2].dev))
                 => r1 = r2)
    /\ [][(/\ Returned(LocalKinds)
           /\ ret'.op = "exec" /\ ret'.kind = ret.kind /\ ~ret'.threw
           /\ ret'.ctx = ret.ctx /\ ret'.dev = ret.dev
           /\ SameDescriptor(ret'.desc, ret.desc)
           /\ ret'.key # ret.key)
              => /\ ret'.res = ret.res
                 /\ ret'.calls = 0
                 /\ resources' = resources]_vars

C34_Witness ==
    /\ Returned(LocalKinds) /\ ~ret.created /\ ret.key = "k2"
    /\ Cardinality({r \in LocalResources : resources[r].owner = ret.ctx}) = 1
    /\ Len(resources) = 2

\* C35: a request against a lost device with no callback pending finds no
\* cache, creates a resource in a new cache and leaves a callback pending;
\* the run of the pending callbacks deregisters and empties that cache, so
\* the next such request for the same descriptor creates again.
C35_LateCacheEvicted ==
    [][/\ (GlobalReturn /\ lost[ret'.dev] /\ PendingMicrotasks = {}) =>
             /\ ret'.created /\ ret'.calls = 1
             /\ ret'.res \notin DOMAIN resources
             /\ ~MapHas(registry[ret'.kind], ret'.dev)
             /\ \E s \in PendingMicrotasks' :
                   /\ s.kind = ret'.kind /\ s.dev = ret'.dev
                   /\ s.cache = resources'[ret'.res].cache
       /\ ret'.op = "drain" =>
             /\ PendingMicrotasks' = {}
             /\ \A s \in PendingMicrotasks :
                   /\ ~MapHas(registry'[s.kind], s.dev)
                   /\ caches'[s.cache] = EmptyMap
                   /\ \E rec \in cleared' :
                         rec.cache = s.cache /\ rec.size = MapSize(caches[s.cache])]_vars

C35_Witness ==
    /\ ret.op = "drain"
    /\ lost["T1"] /\ ~lost["T2"]
    /\ \E rec \in cleared : cleared = {rec} /\ rec.dev = "T1" /\ rec.size = 1
    /\ Len(resources) = 1

\* C36: after a registration the entry stored under its key carries the
\* enabled flag that registration computed; an entry stored enabled is
\* replaced by a disabled one when the key is registered again with the
\* dependencies recorded for it.
C36_EnabledNotSticky ==
    /\ []((ret.op = "exec" /\ ret.kind = "pushFrame") =>
             rendererContext[ret.key].enabled = ret.frame.enabled)
    /\ [][(/\ OnceRegistration
           /\ MapHas(rendererContext, ret'.key)
           /\ rendererContext[ret'.key].enabled
           /\ MapHas(ctx[ret'.ctx].frameDeps, ret'.key)
           /\ SameSequence(ret'.deps, ctx[ret'.ctx].frameDeps[ret'.key]))
              => /\ ~rendererContext'[ret'.key].enabled
                 /\ rendererContext'[ret'.key].kind = "once"]_vars

C36_Witness ==
    /\ OnceRegistered /\ ret.key = "k2"
    /\ ~rendererContext["k2"].enabled
    /\ rendererContext["k2"].callback = "cb2"
    /\ ret.deps = Array(<<NaN>>, 1)

\* The last call was a queue effect request whose effect threw.
EffectThrew == ret.op = "exec" /\ ret.kind = "queueEffect" /\ ret.threw

\* C37: when the effect throws, exec throws, the effect was called, and
\* the sequence of the request is the one recorded for its key; the next
\* request at the key with the same sequence does not call the effect.
C37_RecordedBeforeEffect ==
    /\ [](EffectThrew =>
             /\ ret.ran
             /\ DepsGet(ctx[ret.ctx].queueEffectsDeps, ret.key) = ret.deps)
    /\ [][(/\ EffectThrew
           /\ ret'.op = "exec" /\ ret'.kind = "queueEffect"
           /\ ret'.ctx = ret.ctx /\ ret'.key = ret.key
           /\ SameSequence(ret'.deps, ret.deps))
              => /\ ~ret'.ran /\ ~ret'.threw
                 /\ ctx' = ctx]_vars

C37_Witness ==
    /\ EffectThrew /\ ret.ran
    /\ ret.key = "k2" /\ ret.ctx = "C2"
    /\ ctx["C2"].queueEffectsDeps["k2"] = Array(<<1, 2>>, 2)
    /\ MapHas(ctx["C1"].queueEffectsDeps, "k2")

\* C38: an action request changes neither the queue nor the futures; a
\* call of the returned function adds exactly one thunk that was not in
\* the queue and returns a new future, pending and different from all
\* earlier ones, leaving those as they are; an invocation of a thunk calls
\* the action once, and a settlement changes the future of that run only.
C38_OneThunkPerCall ==
    [][/\ (ret'.op = "exec" /\ ret'.kind = "action") =>
             /\ actionContext' = actionContext
             /\ futures' = futures /\ runs' = runs
             /\ handles' # handles => Len(handles') = Len(handles) + 1
       /\ ret'.op = "handle" =>
             /\ ret'.res \notin DOMAIN futures
             /\ DOMAIN futures' = DOMAIN futures \cup {ret'.res}
             /\ futures'[ret'.res].state = "pending"
             /\ \A p \in DOMAIN futures : futures'[p] = futures[p]
             /\ Cardinality(actionContext') = Cardinality(actionContext) + 1
             /\ \E t \in actionContext' \ actionContext :
                   /\ t.token = ret'.res
                   /\ actionContext' = actionContext \cup {t}
             /\ runs' = runs
       /\ ret'.op = "run" =>
             /\ Len(runs') = Len(runs) + 1
             /\ futures' = futures /\ actionContext' = actionContext
       /\ ret'.op = "settle" =>
             /\ \A p \in DOMAIN futures : p # ret'.res => futures'[p] = futures[p]
             /\ actionContext' = actionContext]_vars

C38_Witness ==
    /\ Len(handles) = 1
    /\ Cardinality(actionContext) = 2
    /\ Len(futures) = 2
    /\ futures[1].state = "fulfilled" /\ futures[2].state = "rejected"
    /\ Len(runs) = 2 /\ runs[1].token # runs[2].token

====
